---- MODULE Spec2Model ----
(***************************************************************************)
(* The undo/redo engine of impulse/undo.py: UndoStack (snapshot walker,    *)
(* delta committer, linear history) and UndoManagerSingleton (debounce     *)
(* timer and named action groups), run against a small heap of domain      *)
(* objects that the user interface mutates between begin_action and        *)
(* end_action.                                                             *)
(***************************************************************************)
EXTENDS Integers, Sequences, FiniteSets, TLC

(***************************************************************************)
(* Bounds of the model.                                                    *)
(***************************************************************************)
\* scalar field values range over 0..MaxVal
MaxVal == 1
\* entries of a list-valued field range over 1..MaxMark
MaxMark == 1
\* number of heap mutations in one run
MaxMut == 2
\* number of begin_action calls in one run
MaxBegin == 2
\* transport times range over 0..MaxTime
MaxTime == 2
\* the clock, time.time(), ranges over 0..MaxClock
MaxClock == 2

(***************************************************************************)
(* The heap: domain objects, identified by name.                           *)
(*   "a"         an object with plain fields (Transport: duration, marks,  *)
(*               and the private _time), no serialize()                    *)
(*   "b"         an object with a serialize() view (ViewScale:             *)
(*               time_offset)                                              *)
(*   "units"     an identity-stable container of objects (Document.units)  *)
(*   "Selection" the selection singleton, "models" its container           *)
(***************************************************************************)
Plain == {"a", "b"}
Containers == {"units", "models"}
Objects == Plain \cup Containers \cup {"Selection"}

None == "None"
Groups == {"G1", "G2"}

\* a field value: a number, a mutable list, an immutable tuple
Num(n) == [kind |-> "num", val |-> <<n>>]
List(s) == [kind |-> "list", val |-> s]
Tuple(s) == [kind |-> "tuple", val |-> s]
\* a mapping-valued field; n stands for the mapping's entries
Dict(n) == [kind |-> "dict", val |-> <<n>>]
\* a field that refers to another object
Obj(o) == [kind |-> "obj", val |-> <<o>>]
\* a field that holds something callable
Callable == [kind |-> "callable", val |-> <<>>]

\* the sentinel field name of a container's contents
ListKey == "_list"
\* field names that start with the private prefix '_'
PrivateNames == {"_time", "_list"}

VARIABLES
  attrs,          \* attrs[o][f]: the value of field f of plain object o
  items,          \* items[c]: the ordered contents of container c
  actions,        \* UndoStack.actions: sequence of <<begin_state, end_state>>
  position,       \* UndoStack.position
  begin_state,    \* UndoStack._begin_state: <<>> (None) or <<snapshot>>
  action_things,  \* UndoManager._action_things: <<>> (None) or <<tuple of things>>
  group,          \* UndoManager._group
  timer_active,   \* UndoManager._end_action_timer.isActive()
  interval,       \* the duration the armed timer was started with, None
                  \* while it is not armed
  raised,         \* the exception the last operation raised, or None
  nmut,           \* heap mutations made so far
  nbegin,         \* begin_action calls made so far
  last,           \* history: the last operation and the stack it met
  ep,             \* history: the action being followed, from its first
                  \* begin_action to the undo and redo after its end
  reach0,         \* history: the objects that were reachable from the roots
                  \* when the before-snapshot in flight was taken
  before_undo,    \* history: after an undo(), the values its delta's keys
                  \* had before it
  sealed,         \* the (object, field) pairs whose object no longer accepts
                  \* an assignment to the field: setattr raises AttributeError
  alias,          \* object identity: [loc, i, n] says the live value of the
                  \* field loc is the very object stored for loc in map n of
                  \* delta i
  refs,           \* refs[o]: thing.model_refs of object o
  captured,       \* the last walk of the heap: <<>> (none) or <<[things,
                  \* raised, state]>>
  transport,      \* the fields of the Transport object, with the clock and
                  \* the scheduled GLib sources it works on
  seen            \* the change notifications the manager emitted during the
                  \* last operation: for each, the stack position its
                  \* observers find

(***************************************************************************)
(* Things handed to begin_action: one object, or a tuple of objects.       *)
(***************************************************************************)
One(o) == [tup |-> FALSE, elems |-> <<o>>]
Tup(s) == [tup |-> TRUE, elems |-> s]

Has(seq, x) == \E i \in 1..Len(seq) : seq[i] = x

(***************************************************************************)
(* UndoStack.save_state                                                    *)
(***************************************************************************)
\* state[key] = value
Put(state, key, value) == (key :> value) @@ state

EmptyState == [k \in {} |-> 0]

\* no thing has model references
no_model_refs(o) == <<>>

\* thing.model_refs
model_refs(o) == refs[o]

\* lines 105-110: lists are stored as tuples, mappings as a copy with the
\* same entries (a new object: see alias), other values as they are
Captured(value) == IF value.kind = "list" THEN Tuple(value.val) ELSE value

RECURSIVE save_fields_private(_, _, _, _)
\* the loop over the fields, without line 102's skip of private names
save_fields_private(o, d, keys, state) ==
  IF keys = {} THEN state
  ELSE LET key == CHOOSE k \in keys : TRUE
           rest == keys \ {key}
       IN IF d[key].kind = "callable"
          THEN save_fields_private(o, d, rest, state)
          ELSE save_fields_private(o, d, rest,
                                   Put(state, <<o, key>>, Captured(d[key])))

RECURSIVE save_fields(_, _, _, _)
save_fields(o, d, keys, state) ==
  IF keys = {} THEN state
  ELSE LET key == CHOOSE k \in keys : TRUE
           rest == keys \ {key}
       IN IF key \in PrivateNames THEN save_fields(o, d, rest, state)
          ELSE IF d[key].kind = "callable" THEN save_fields(o, d, rest, state)
          ELSE save_fields(o, d, rest, Put(state, <<o, key>>, Captured(d[key])))

RECURSIVE save_object(_, _, _, _)
RECURSIVE save_each(_, _, _, _)
\* lines 80-118, for a hashable thing
save_object(o, at, it, state) ==
  LET s1 == IF o \in Containers
            THEN Put(save_each(it[o], at, it, state), <<o, ListKey>>, it[o])
            ELSE state
      \* thing.serialize(), else thing.__dict__
      d == IF o \in DOMAIN at THEN at[o] ELSE EmptyState
      s2 == save_fields(o, d, DOMAIN d, s1)
  IN save_each(model_refs(o), at, it, s2)
\* for item in thing: self.save_state(item, state)
save_each(seq, at, it, state) ==
  IF seq = <<>> THEN state
  ELSE save_each(Tail(seq), at, it, save_object(Head(seq), at, it, state))

RECURSIVE save_state(_, _, _, _)
\* lines 76-79: a tuple of things is walked, not stored
save_state(things, at, it, state) ==
  IF things = <<>> THEN state
  ELSE save_state(Tail(things), at, it,
                  save_each(Head(things).elems, at, it, state))

\* the things save_state(o) calls itself on: the items of an iterable thing
\* (line 84-85) and its model references (line 117)
Calls(o, it) ==
  {x \in Objects : (o \in Containers /\ Has(it[o], x)) \/ Has(model_refs(o), x)}

RECURSIVE CallsFrom(_, _)
\* every thing the walk started on the things of S comes to
CallsFrom(S, it) ==
  LET more == S \cup UNION {Calls(o, it) : o \in S}
  IN IF more = S THEN S ELSE CallsFrom(more, it)

\* the walk never returns: it comes to a thing from which it comes to the
\* same thing again, and there is no visited set to stop it
Unbounded(S, it) ==
  \E o \in CallsFrom(S, it) : o \in CallsFrom(Calls(o, it), it)

\* save_state(thing) as the interpreter runs it: a recursion that never
\* returns ends in RuntimeError (maximum recursion depth exceeded)
capture(things, at, it) ==
  IF Unbounded({o \in Objects : Has(things.elems, o)}, it)
  THEN [things |-> things, raised |-> "RuntimeError", state |-> EmptyState]
  ELSE [things |-> things, raised |-> None,
        state |-> save_state(<<things>>, at, it, EmptyState)]

\* save_state(things) does not return: the walk from the things of the
\* tuple is unbounded, and the call ends in RuntimeError
Overflows(things, it) ==
  Unbounded({o \in Objects :
               \E i \in 1..Len(things) : Has(things[i].elems, o)}, it)

\* save_state(None): nothing to walk, nothing stored
save_opt(things_opt, at, it) ==
  IF things_opt = <<>> THEN EmptyState
  ELSE save_state(things_opt[1], at, it, EmptyState)

(***************************************************************************)
(* UndoStack.restore_state: the heap with every entry of state written     *)
(* back.                                                                   *)
(***************************************************************************)
\* restore_state, given up at a failing assignment
restore_attrs_abort(state, at) ==
  IF DOMAIN state \cap sealed # {} THEN at
  ELSE [o \in DOMAIN at |->
          [f \in DOMAIN at[o] |->
             IF <<o, f>> \in DOMAIN state THEN state[<<o, f>>] ELSE at[o][f]]]

\* lines 125-128: setattr, with an AttributeError passed over; an entry
\* keyed '_list' is not a field's (line 123)
restore_attrs(state, at) ==
  [o \in DOMAIN at |->
     [f \in DOMAIN at[o] |->
        IF f # ListKey /\ <<o, f>> \in DOMAIN state /\ <<o, f>> \notin sealed
        THEN state[<<o, f>>] ELSE at[o][f]]]

restore_items(state, it) ==
  [c \in DOMAIN it |->
     IF <<c, ListKey>> \in DOMAIN state THEN state[<<c, ListKey>>] ELSE it[c]]

(***************************************************************************)
(* UndoStack and UndoManagerSingleton, as operators on the record m of     *)
(* their fields.                                                           *)
(***************************************************************************)
Restrict(f, S) == [k \in S |-> f[k]]

\* UndoStack.begin_action
stack_begin_action(m, things, at, it) ==
  IF Overflows(things, it) THEN [m EXCEPT !.raised = "RuntimeError"]
  ELSE
  [m EXCEPT !.begin_state = <<save_state(things, at, it, EmptyState)>>]

\* add_to_action, storing the new value of every key (line 22 left out)
stack_add_to_action_overwrite(m, thing, at, it) ==
  LET new_state == save_state(<<thing>>, at, it, EmptyState)
  IN IF DOMAIN new_state = {} THEN m
     ELSE IF m.begin_state = <<>> THEN [m EXCEPT !.raised = "TypeError"]
     ELSE LET old == m.begin_state[1]
              merged == [k \in DOMAIN old \cup DOMAIN new_state |->
                           IF k \in DOMAIN new_state THEN new_state[k]
                           ELSE old[k]]
          IN [m EXCEPT !.begin_state = <<merged>>]

\* UndoStack.add_to_action
stack_add_to_action(m, thing, at, it) ==
  IF Overflows(<<thing>>, it) THEN [m EXCEPT !.raised = "RuntimeError"]
  ELSE
  LET new_state == save_state(<<thing>>, at, it, EmptyState)
  IN IF DOMAIN new_state = {} THEN m
     ELSE IF m.begin_state = <<>> THEN [m EXCEPT !.raised = "TypeError"]
     ELSE LET old == m.begin_state[1]
              merged == [k \in DOMAIN old \cup DOMAIN new_state |->
                           IF k \in DOMAIN old THEN old[k] ELSE new_state[k]]
          IN [m EXCEPT !.begin_state = <<merged>>]

\* push, without line 42's truncation
push_keep(m, delta) ==
  [m EXCEPT !.actions = Append(m.actions, delta),
            !.position = m.position + 1]

\* lines 41-45: truncate, append, advance
push(m, delta) ==
  [m EXCEPT !.actions = Append(SubSeq(m.actions, 1, m.position), delta),
            !.position = m.position + 1]

\* end_action, without line 40's check for an empty delta
stack_end_action_always_push(m, things_opt, at, it) ==
  IF m.begin_state = <<>> THEN m
  ELSE LET begin == m.begin_state[1]
           end == save_opt(things_opt, at, it)
           same == {k \in DOMAIN end : k \in DOMAIN begin /\ begin[k] = end[k]}
           b == Restrict(begin, DOMAIN begin \ same)
           e == Restrict(end, DOMAIN end \ same)
       IN push([m EXCEPT !.begin_state = <<>>], <<b, e>>)

\* end_action, with line 36 (del end_state[key]) left out
stack_end_action_keep_end(m, things_opt, at, it) ==
  IF m.begin_state = <<>> THEN m
  ELSE LET begin == m.begin_state[1]
           end == save_opt(things_opt, at, it)
           same == {k \in DOMAIN end : k \in DOMAIN begin /\ begin[k] = end[k]}
           b == Restrict(begin, DOMAIN begin \ same)
           m1 == [m EXCEPT !.begin_state = <<>>]
       IN IF DOMAIN b = {} /\ DOMAIN end = {} THEN m1
          ELSE push(m1, <<b, end>>)

\* end_action, without the return of line 27: len(None) at line 40 raises
stack_end_action_no_return(m, things_opt, at, it) ==
  IF m.begin_state = <<>> THEN [m EXCEPT !.raised = "TypeError"]
  ELSE LET begin == m.begin_state[1]
           end == save_opt(things_opt, at, it)
           same == {k \in DOMAIN end : k \in DOMAIN begin /\ begin[k] = end[k]}
           b == Restrict(begin, DOMAIN begin \ same)
           e == Restrict(end, DOMAIN end \ same)
           m1 == [m EXCEPT !.begin_state = <<>>]
       IN IF DOMAIN b = {} /\ DOMAIN e = {} THEN m1
          ELSE push(m1, <<b, e>>)

\* UndoStack.end_action
stack_end_action(m, things_opt, at, it) ==
  IF m.begin_state = <<>> THEN m
  ELSE IF things_opt # <<>> /\ Overflows(things_opt[1], it)
  THEN [m EXCEPT !.raised = "RuntimeError"]
  ELSE LET begin == m.begin_state[1]
           end == save_opt(things_opt, at, it)
           same == {k \in DOMAIN end : k \in DOMAIN begin /\ begin[k] = end[k]}
           b == Restrict(begin, DOMAIN begin \ same)
           e == Restrict(end, DOMAIN end \ same)
           m1 == [m EXCEPT !.begin_state = <<>>]
       IN IF DOMAIN b = {} /\ DOMAIN e = {} THEN m1
          ELSE push(m1, <<b, e>>)

\* can_undo, true at position 0 as well
can_undo_at_zero(m) == m.position >= 0

\* UndoStack.can_undo (position is never None)
can_undo(m) == m.position > 0

\* UndoStack.can_redo (position is never None)
can_redo(m) == m.position < Len(m.actions)

\* UndoManagerSingleton.can_undo
UndoManager_can_undo(m) == can_undo(m)

\* UndoManagerSingleton.can_redo
UndoManager_can_redo(m) == can_redo(m)

\* undo, guarded by position >= 0 instead of position > 0
undo_off_by_one(m, at, it) ==
  IF m.position < 0 THEN [m |-> m, attrs |-> at, items |-> it]
  ELSE IF m.position = 0
  THEN [m |-> [m EXCEPT !.position = -1, !.raised = "IndexError"],
        attrs |-> at, items |-> it]
  ELSE LET state == m.actions[m.position][1]
       IN [m |-> [m EXCEPT !.position = m.position - 1],
           attrs |-> restore_attrs(state, at),
           items |-> restore_items(state, it)]

\* UndoStack.undo: the stack and the heap after it
undo(m, at, it) ==
  IF ~can_undo(m) THEN [m |-> m, attrs |-> at, items |-> it]
  ELSE LET state == m.actions[m.position][1]
       IN [m |-> [m EXCEPT !.position = m.position - 1],
           attrs |-> restore_attrs(state, at),
           items |-> restore_items(state, it)]

\* redo, writing back the undo-map of the delta
redo_undo_map(m, at, it) ==
  IF ~can_redo(m) THEN [m |-> m, attrs |-> at, items |-> it]
  ELSE LET state == m.actions[m.position + 1][1]
       IN [m |-> [m EXCEPT !.position = m.position + 1],
           attrs |-> restore_attrs(state, at),
           items |-> restore_items(state, it)]

\* UndoStack.redo: the stack and the heap after it
redo(m, at, it) ==
  IF ~can_redo(m) THEN [m |-> m, attrs |-> at, items |-> it]
  ELSE LET state == m.actions[m.position + 1][2]
       IN [m |-> [m EXCEPT !.position = m.position + 1],
           attrs |-> restore_attrs(state, at),
           items |-> restore_items(state, it)]

\* self._end_action_timer.stop()
timer_stop(m) == [m EXCEPT !.timer_active = FALSE, !.interval = None]

\* self._end_action_timer.start(end_timeout)
timer_start(m, msec) == [m EXCEPT !.timer_active = TRUE, !.interval = msec]

\* self.on_change(): the manager's observers are called, and find the stack
\* as it is at the call
on_change(m) == [m EXCEPT !.seen = Append(@, m.position)]

\* undo(), notifying only when something was undone
UndoManager_undo_quiet(m, at, it) ==
  LET r == undo(m, at, it)
  IN IF can_undo(m) THEN [r EXCEPT !.m = on_change(r.m)] ELSE r

\* UndoManagerSingleton.undo
UndoManager_undo(m, at, it) ==
  LET r == undo(m, at, it)
  IN [r EXCEPT !.m = on_change(r.m)]

\* UndoManagerSingleton.redo
UndoManager_redo(m, at, it) ==
  LET r == redo(m, at, it)
  IN [r EXCEPT !.m = on_change(r.m)]

\* end_action, without the group check of lines 189-190
end_action_any(m, g, at, it) ==
  LET m1 == stack_end_action([m EXCEPT !.group = None], m.action_things, at, it)
  IN timer_stop([on_change(m1) EXCEPT !.action_things = <<>>])

\* end_action, without the timer.stop() of line 195
end_action_keep_timer(m, g, at, it) ==
  IF m.group # None /\ m.group # g THEN m
  ELSE LET m1 == stack_end_action([m EXCEPT !.group = None],
                                  m.action_things, at, it)
       IN [on_change(m1) EXCEPT !.action_things = <<>>]

\* end_action, without line 193 (self._action_things = None)
end_action_keep_things(m, g, at, it) ==
  IF m.group # None /\ m.group # g THEN m
  ELSE LET m1 == stack_end_action([m EXCEPT !.group = None],
                                  m.action_things, at, it)
       IN timer_stop(on_change(m1))

\* UndoManagerSingleton.end_action; an exception of line 192 leaves the rest
\* undone
end_action(m, g, at, it) ==
  IF m.group # None /\ m.group # g THEN m
  ELSE LET m1 == stack_end_action([m EXCEPT !.group = None],
                                  m.action_things, at, it)
       IN IF m1.raised # None THEN m1
          ELSE timer_stop([on_change(m1) EXCEPT !.action_things = <<>>])

RECURSIVE join(_, _, _, _)
\* lines 163-168: the things of a call that joins the active group
join(m, elems, at, it) ==
  IF elems = <<>> \/ m.raised # None THEN m
  ELSE LET thing == One(Head(elems))
           had == IF m.action_things = <<>> THEN <<>> ELSE m.action_things[1]
       IN IF \E i \in 1..Len(had) : had[i] = thing
          THEN join([m EXCEPT !.action_things = <<had>>], Tail(elems), at, it)
          ELSE join(stack_add_to_action(
                      [m EXCEPT !.action_things = <<Append(had, thing)>>],
                      thing, at, it),
                    Tail(elems), at, it)

\* begin_action, without the join of lines 159-169
begin_action_no_join(m, things, end_timeout, g, at, it) ==
  LET m1 == [m EXCEPT !.group = g]
      first_one == end_timeout = None \/ ~m1.timer_active
      m2 == IF end_timeout # None THEN timer_start(m1, end_timeout)
            ELSE IF m1.timer_active
                 THEN end_action(timer_stop(m1), None, at, it)
                 ELSE m1
  IN IF first_one
     THEN LET roots == <<things, One("Selection"), One("models")>>
          IN on_change(stack_begin_action(
                         [m2 EXCEPT !.action_things = <<roots>>], roots, at, it))
     ELSE m2

\* begin_action, taking a new before-snapshot on every call
begin_action_recapture(m, things, end_timeout, g, at, it) ==
  IF m.group # None THEN join(m, things.elems, at, it)
  ELSE LET m1 == [m EXCEPT !.group = g]
           m2 == IF end_timeout # None THEN timer_start(m1, end_timeout)
                 ELSE IF m1.timer_active
                      THEN end_action(timer_stop(m1),
                                      None, at, it)
                      ELSE m1
           roots == <<things, One("Selection"), One("models")>>
       IN on_change(stack_begin_action(
                      [m2 EXCEPT !.action_things = <<roots>>], roots, at, it))

\* begin_action, capturing the caller's things only (line 184 without the
\* selection)
begin_action_no_selection(m, things, end_timeout, g, at, it) ==
  IF m.group # None THEN join(m, things.elems, at, it)
  ELSE LET m1 == [m EXCEPT !.group = g]
           first_one == end_timeout = None \/ ~m1.timer_active
           m2 == IF end_timeout # None THEN timer_start(m1, end_timeout)
                 ELSE IF m1.timer_active
                      THEN end_action(timer_stop(m1),
                                      None, at, it)
                      ELSE m1
       IN IF first_one
          THEN on_change(stack_begin_action(
                           [m2 EXCEPT !.action_things = <<(<<things>>)>>],
                           <<things>>, at, it))
          ELSE m2

\* begin_action, leaving an armed timer as it is (lines 176 and 179 run
\* only for a timer that is not armed)
begin_action_keep_deadline(m, things, end_timeout, g, at, it) ==
  IF m.group # None THEN join(m, things.elems, at, it)
  ELSE LET m1 == [m EXCEPT !.group = g]
           first_one == end_timeout = None \/ ~m1.timer_active
           m2 == IF end_timeout # None
                 THEN IF m1.timer_active THEN m1
                      ELSE timer_start(m1, end_timeout)
                 ELSE IF m1.timer_active
                      THEN end_action(timer_stop(m1), None, at, it)
                      ELSE m1
       IN IF first_one
          THEN LET roots == <<things, One("Selection"), One("models")>>
               IN on_change(stack_begin_action(
                              [m2 EXCEPT !.action_things = <<roots>>],
                              roots, at, it))
          ELSE m2

\* begin_action, keeping the before-snapshot of an action that was begun
\* and not ended
begin_action_keep_first(m, things, end_timeout, g, at, it) ==
  IF m.group # None THEN join(m, things.elems, at, it)
  ELSE LET m1 == [m EXCEPT !.group = g]
           first_one == end_timeout = None \/ ~m1.timer_active
           m2 == IF end_timeout # None THEN timer_start(m1, end_timeout)
                 ELSE IF m1.timer_active
                      THEN end_action(timer_stop(m1), None, at, it)
                      ELSE m1
       IN IF first_one /\ m2.begin_state = <<>>
          THEN LET roots == <<things, One("Selection"), One("models")>>
               IN on_change(stack_begin_action(
                              [m2 EXCEPT !.action_things = <<roots>>],
                              roots, at, it))
          ELSE m2

\* UndoManagerSingleton.begin_action; an exception of line 182 or 185
\* leaves the rest undone
begin_action(m, things, end_timeout, g, at, it) ==
  IF m.group # None THEN join(m, things.elems, at, it)
  ELSE LET m1 == [m EXCEPT !.group = g]
           first_one == end_timeout = None \/ ~m1.timer_active
           m2 == IF end_timeout # None THEN timer_start(m1, end_timeout)
                 ELSE IF m1.timer_active
                      THEN end_action(timer_stop(m1),
                                      None, at, it)
                      ELSE m1
       IN IF first_one /\ m2.raised = None
          THEN LET roots == <<things, One("Selection"), One("models")>>
                   m3 == stack_begin_action(
                           [m2 EXCEPT !.action_things = <<roots>>],
                           roots, at, it)
               IN IF m3.raised # None THEN m3 ELSE on_change(m3)
          ELSE m2

\* reset, keeping the old stack's position
reset_keep_position(m) ==
  [m EXCEPT !.actions = <<>>, !.begin_state = <<>>,
            !.action_things = <<>>, !.timer_active = FALSE, !.interval = None, !.group = None]

\* reset, with the timer of before the reset left running
reset_keep_timer(m) ==
  [m EXCEPT !.actions = <<>>, !.position = 0, !.begin_state = <<>>,
            !.action_things = <<>>, !.group = None]

\* UndoManagerSingleton.reset: a new stack, no tracked things, a new timer
\* (the old QTimer loses its only reference and is destroyed with it), no
\* group
reset(m) ==
  [m EXCEPT !.actions = <<>>, !.position = 0, !.begin_state = <<>>,
            !.action_things = <<>>, !.timer_active = FALSE, !.interval = None, !.group = None]

(***************************************************************************)
(* The state machine.                                                      *)
(***************************************************************************)
vars == <<attrs, items, actions, position, begin_state, action_things,
          group, timer_active, interval, raised, nmut, nbegin, last, ep,
          reach0, before_undo, sealed, alias, refs, captured, seen,
          transport>>

\* the manager and its stack, with no exception pending
M == [actions |-> actions, position |-> position, begin_state |-> begin_state,
      action_things |-> action_things, group |-> group,
      timer_active |-> timer_active, interval |-> interval,
      raised |-> None, seen |-> <<>>]

SetM(m) ==
  /\ actions' = m.actions
  /\ position' = m.position
  /\ begin_state' = m.begin_state
  /\ action_things' = m.action_things
  /\ group' = m.group
  /\ timer_active' = m.timer_active
  /\ interval' = m.interval
  /\ raised' = m.raised
  /\ seen' = m.seen

\* the things a caller hands to begin_action
Things == {One(o) : o \in Plain} \cup {Tup(<<"units", "b">>)}

\* the selections the user interface makes
Selections == {<<>>, <<"b">>}

(***************************************************************************)
(* History variables.  last names the last operation, its group argument   *)
(* and what the stack allowed when it was called.  ep follows one action   *)
(* from the begin_action that starts its capture: the begin_action calls   *)
(* made (each with the locations mutated after it), whether the timer was  *)
(* armed and the stack at the start, the value each mutated location of a  *)
(* root had before its first mutation (pre) and at the end (post), whether *)
(* an object that is no root was mutated (stray), and how the action       *)
(* ended (kind).                                                           *)
(***************************************************************************)
Op(name, g) == [op |-> name, g |-> g, cu |-> position > 0,
                cr |-> position < Len(actions),
                fl |-> begin_state # <<>> \/ group # None,
                ta |-> timer_active, tmo |-> None]

EpNone == [phase |-> "none", armed |-> FALSE, calls |-> <<>>, stray |-> FALSE,
           pre |-> <<>>, post |-> <<>>, actions0 |-> <<>>, position0 |-> 0,
           kind |-> None]

Call(things, end_timeout, g) ==
  [things |-> things, tmo |-> end_timeout, g |-> g, locs |-> {}]

\* a begin_action that adds to the action in flight: it joins the active
\* group, or restarts the armed timer
Continues(end_timeout) ==
  group # None \/ (timer_active /\ end_timeout # None)

\* the value at a location of the heap
At(at, it, loc) == IF loc[2] = ListKey THEN it[loc[1]] ELSE at[loc[1]][loc[2]]

RECURSIVE RefClosure(_)
\* the objects of S and the objects they have as model references
RefClosure(S) ==
  LET more == S \cup {x \in Objects : \E o \in S : Has(refs[o], x)}
  IN IF more = S THEN S ELSE RefClosure(more)

\* the roots of a followed action: the objects its calls name with their
\* model references, the selection and the selection's container
Named(calls) ==
  RefClosure({o \in Objects :
                \E i \in 1..Len(calls) : Has(calls[i].things.elems, o)})
  \cup {"Selection", "models"}

\* the objects save_state walks from a tuple of things: the things and the
\* members of the containers among them
Reach(roots, it) ==
  {o \in Objects : \E i \in 1..Len(roots) :
     \/ Has(roots[i].elems, o)
     \/ \E c \in Containers : Has(roots[i].elems, c) /\ Has(it[c], o)}

\* reach0 after a step that takes no new before-snapshot
KeepReach == reach0' = IF begin_state' = <<>> THEN {} ELSE reach0

\* before_undo after any step but an undo()
NoUndo == before_undo' = EmptyState

\* how a followed action ended
Kind(calls, name, g) ==
  IF /\ Len(calls) = 1 /\ calls[1].tmo = None /\ calls[1].g = None
     /\ name = "end_action" /\ g = None
  THEN "plain"
  ELSE IF /\ \A i \in 1..Len(calls) : calls[i].tmo # None /\ calls[i].g = None
          /\ g = None
  THEN "debounce"
  ELSE IF calls[1].g # None /\ name = "end_action" /\ g = calls[1].g
  THEN "group"
  ELSE "other"

ObserveBegin(things, end_timeout, g) ==
  /\ last' = [Op("begin_action", g) EXCEPT
               !.tmo = IF group # None THEN None ELSE end_timeout]
  /\ ep' = IF Continues(end_timeout)
           THEN IF ep.phase = "open"
                THEN [ep EXCEPT !.calls = Append(@,
                        Call(things, IF group # None THEN None ELSE end_timeout,
                             IF group # None THEN None ELSE g))]
                ELSE EpNone
           ELSE [EpNone EXCEPT
                   !.phase = "open",
                   !.calls = <<Call(things, end_timeout, g)>>,
                   !.armed = timer_active,
                   !.pre = EmptyState, !.post = EmptyState,
                   !.actions0 = actions, !.position0 = position]
  /\ IF Continues(end_timeout) THEN KeepReach
     ELSE reach0' = Reach(<<things, One("Selection"), One("models")>>, items)
  /\ NoUndo

ObserveMut(loc) ==
  /\ last' = Op("mutate", None)
  /\ ep' = IF ep.phase = "open" /\ raised' = None
           THEN IF loc[1] \in Named(ep.calls)
                THEN [ep EXCEPT
                        !.calls[Len(ep.calls)].locs = @ \cup {loc},
                        !.pre = IF loc \in DOMAIN ep.pre THEN ep.pre
                                ELSE Put(ep.pre, loc, At(attrs, items, loc))]
                ELSE [ep EXCEPT !.stray = TRUE]
           ELSE EpNone
  /\ KeepReach
  /\ NoUndo

ObserveEnd(name, g) ==
  /\ last' = Op(name, g)
  /\ ep' = IF ep.phase = "open"
           THEN [ep EXCEPT !.phase = "ended",
                           !.kind = Kind(ep.calls, name, g),
                           !.post = [loc \in DOMAIN ep.pre |->
                                       At(attrs, items, loc)]]
           ELSE EpNone
  /\ KeepReach
  /\ NoUndo

ObserveUndo ==
  /\ last' = Op("undo", None)
  /\ ep' = IF ep.phase = "ended"
           THEN [ep EXCEPT !.phase = "undone", !.calls = <<>>,
                           !.actions0 = <<>>, !.position0 = 0]
           ELSE EpNone
  /\ KeepReach
  /\ before_undo' = IF position > 0
                    THEN [loc \in DOMAIN actions[position][1] |->
                            At(attrs, items, loc)]
                    ELSE EmptyState

ObserveRedo ==
  /\ last' = Op("redo", None)
  /\ ep' = IF ep.phase = "undone" THEN [ep EXCEPT !.phase = "redone"] ELSE EpNone
  /\ KeepReach
  /\ NoUndo

ObserveReset ==
  /\ last' = Op("reset", None)
  /\ ep' = EpNone
  /\ KeepReach
  /\ NoUndo

(***************************************************************************)
(* Transport (models/controllers.py), as operators on the record t of its  *)
(* fields.  Times and the clock are whole numbers.  A field that is None   *)
(* or a number is <<>> or <<number>>.  t.now is what time.time() returns   *)
(* and t.sources the ids of the idle sources GLib has scheduled.           *)
(* _cycling, cycle_start_time, cycle_end_time, skip_delta and              *)
(* display_interval keep the values of __init__ (False, None, None, 1, a   *)
(* fraction of a clock step).  self.on_change() calls the observers and    *)
(* changes no field.  t.op, t.was_playing, t.was_recording, t.marks1,       *)
(* t.marks0 and t.twice are history: the last operation, the modes it met, *)
(* the marks before the last toggle_mark, and, when the last two           *)
(* operations were toggle_mark (twice), the marks before the first.        *)
(***************************************************************************)
Transport_init ==
  [_playing |-> FALSE, _recording |-> FALSE, _time |-> 0,
   _last_played_to |-> 0, _last_display_update |-> 0, _start_time |-> <<>>,
   _run_timer |-> <<>>, marks |-> <<>>, _cycle_start_time |-> <<>>,
   _cycle_end_time |-> <<>>,
   now |-> 0, sources |-> {},
   op |-> "init", was_playing |-> FALSE, was_recording |-> FALSE,
   marks1 |-> <<>>, marks0 |-> <<>>, twice |-> FALSE]

\* the values assigned to playing and recording
Assigned == {"True", "False", "1", "0", "None"}

\* value == True
EqTrue(value) == value \in {"True", "1"}

\* the time property
time(t) ==
  IF t._start_time = <<>> THEN t._time
  ELSE t._time + (t.now - t._start_time[1])

RECURSIVE get_previous_mark(_, _)
get_previous_mark(marks, from_time) ==
  IF marks = <<>> THEN 0
  ELSE IF marks[Len(marks)] < from_time THEN marks[Len(marks)]
  ELSE get_previous_mark(SubSeq(marks, 1, Len(marks) - 1), from_time)

RECURSIVE get_next_mark(_, _)
get_next_mark(marks, from_time) ==
  IF marks = <<>> THEN <<>>
  ELSE IF Head(marks) > from_time THEN <<Head(marks)>>
  ELSE get_next_mark(Tail(marks), from_time)

\* update_cycle_bounds; with whole times, a mark is before
\* current_time + 0.001 when it is before current_time + 1
update_cycle_bounds(t) ==
  [t EXCEPT !._cycle_start_time = <<get_previous_mark(t.marks, time(t) + 1)>>,
            !._cycle_end_time = get_next_mark(t.marks, time(t))]

\* GLib.idle_add: a new source with an id no scheduled source has
idle_add(t) ==
  LET id == CHOOSE n \in 1..(Cardinality(t.sources) + 1) :
              /\ n \notin t.sources
              /\ \A k \in 1..(n - 1) : k \in t.sources
  IN [t EXCEPT !.sources = @ \cup {id}, !._run_timer = <<id>>]

\* GLib.source_remove
source_remove(t, id) == [t EXCEPT !.sources = @ \ {id}]

\* Transport._run
_run(t) ==
  LET t1 == update_cycle_bounds(
              [t EXCEPT !._start_time = <<t.now>>,
                        !._last_played_to = t._time])
  IN IF t1._run_timer = <<>> THEN idle_add(t1) ELSE t1

\* _stop, without the GLib.source_remove of line 115
_stop_keep_source(t) ==
  [t EXCEPT !._time = time(t), !._start_time = <<>>, !._run_timer = <<>>]

\* Transport._stop
_stop(t) ==
  LET t1 == [t EXCEPT !._time = time(t), !._start_time = <<>>]
  IN IF t1._run_timer # <<>>
     THEN [source_remove(t1, t1._run_timer[1]) EXCEPT !._run_timer = <<>>]
     ELSE t1

RECURSIVE set_playing(_, _)
RECURSIVE set_recording(_, _)

\* the playing setter, without line 52 (self.recording = False)
set_playing_keep_recording(t, value) ==
  IF t._playing # EqTrue(value)
  THEN LET t2 == [t EXCEPT !._playing = EqTrue(value)]
       IN IF t2._playing THEN _run(t2) ELSE _stop(t2)
  ELSE t

\* the playing setter
set_playing(t, value) ==
  IF t._playing # EqTrue(value)
  THEN LET t1 == set_recording(t, "False")
           t2 == [t1 EXCEPT !._playing = EqTrue(value)]
       IN IF t2._playing THEN _run(t2) ELSE _stop(t2)
  ELSE t

\* the recording setter
set_recording(t, value) ==
  IF t._recording # EqTrue(value)
  THEN LET t1 == set_playing(t, "False")
           t2 == [t1 EXCEPT !._recording = EqTrue(value)]
       IN IF t2._recording THEN _run(t2) ELSE _stop(t2)
  ELSE t

play(t) == set_playing(t, "True")
record(t) == set_recording(t, "True")
stop(t) == set_recording(set_playing(t, "False"), "False")

\* max(0.0, t)
Max0(n) == IF n > 0 THEN n ELSE 0

\* the time setter
set_time(t, v) ==
  LET t1 == [t EXCEPT !._time = Max0(v)]
      t2 == IF t1._start_time # <<>>
            THEN [t1 EXCEPT !._start_time = <<t1.now>>] ELSE t1
  IN update_cycle_bounds(t2)

skip_back(t) == set_time(t, time(t) - 1)
skip_forward(t) == set_time(t, time(t) + 1)

RECURSIVE Without(_, _)
\* list.remove(x): the list without the first entry equal to x
Without(seq, x) ==
  IF seq = <<>> THEN <<>>
  ELSE IF Head(seq) = x THEN Tail(seq)
  ELSE <<Head(seq)>> \o Without(Tail(seq), x)

RECURSIVE Sorted(_, _)
\* seq, kept ascending, with t inserted
Sorted(seq, t) ==
  IF seq = <<>> THEN <<t>>
  ELSE IF t <= Head(seq) THEN <<t>> \o seq
  ELSE <<Head(seq)>> \o Sorted(Tail(seq), t)

RECURSIVE sort(_)
\* list.sort(): the entries of seq in ascending order
sort(seq) ==
  IF seq = <<>> THEN <<>> ELSE Sorted(sort(Tail(seq)), Head(seq))

\* toggle_mark, without the sort of line 171
toggle_mark_unsorted(t) ==
  IF Has(t.marks, time(t))
  THEN [t EXCEPT !.marks = Without(@, time(t))]
  ELSE [t EXCEPT !.marks = Append(@, time(t))]

\* Transport.toggle_mark
toggle_mark(t) ==
  IF Has(t.marks, time(t))
  THEN [t EXCEPT !.marks = Without(@, time(t))]
  ELSE [t EXCEPT !.marks = sort(Append(@, time(t)))]

\* on_play_to
on_play_to(t, end_time) == [t EXCEPT !._last_played_to = end_time]

\* on_running, the idle callback, with cycling off: the display is updated
\* when a clock step has passed since the last update
on_running(t) ==
  LET t1 == on_play_to(t, time(t))
  IN IF t1.now - t1._last_display_update > 0
     THEN [t1 EXCEPT !._last_display_update = t1.now]
     ELSE t1

InitAttrs ==
  [o \in Plain |->
     IF o = "a"
     THEN [duration |-> Num(0), marks |-> List(<<>>), _time |-> Num(0),
           props |-> Dict(0)]
     ELSE [time_offset |-> Num(0)]]

Init ==
  /\ attrs = InitAttrs
  /\ items = [c \in Containers |-> IF c = "units" THEN <<"a">> ELSE <<>>]
  /\ actions = <<>>
  /\ position = 0
  /\ begin_state = <<>>
  /\ action_things = <<>>
  /\ group = None
  /\ timer_active = FALSE
  /\ interval = None
  /\ raised = None
  /\ nmut = 0
  /\ nbegin = 0
  /\ last = Op("init", None)
  /\ ep = EpNone
  /\ reach0 = {}
  /\ before_undo = EmptyState
  /\ sealed = {}
  /\ alias = {}
  /\ refs = [o \in Objects |-> <<>>]
  /\ captured = <<>>
  /\ seen = <<>>
  /\ transport = Transport_init

\* the parts of the heap that only the walks and the sealing of a field
\* change
Rest == UNCHANGED <<sealed, refs, captured, transport>>

\* a step of the manager that restores nothing: a delta that is dropped from
\* the stack (truncated by a push, or reset) no longer shares a value
StackAlias ==
  alias' = {e \in alias :
              e.i <= IF position' = position + 1 THEN position
                     ELSE Len(actions')}

\* line 127: the field is made to refer to the very value the map holds; for
\* a mapping the live field and the map now share one object
RestoreAlias(i, n) ==
  LET written == {loc \in DOMAIN actions[i][n] \ sealed : loc[2] # ListKey}
  IN alias' = {e \in alias : e.loc \notin written}
              \cup {[loc |-> loc, i |-> i, n |-> n] :
                      loc \in {l \in written : actions[i][n][l].kind = "dict"}}

\* UndoManager.begin_action(things, end_timeout, group)
BeginAction(things, end_timeout, g) ==
  /\ nbegin < MaxBegin
  /\ nbegin' = nbegin + 1
  /\ SetM(begin_action(M, things, end_timeout, g, attrs, items))
  /\ StackAlias
  /\ Rest
  /\ UNCHANGED <<attrs, items, nmut>>

\* UndoManager.end_action(group)
EndAction(g) ==
  /\ SetM(end_action(M, g, attrs, items))
  /\ StackAlias
  /\ Rest
  /\ UNCHANGED <<attrs, items, nmut, nbegin>>

\* the timer fires and nothing is connected to it
Timeout_no_end ==
  /\ timer_active
  /\ SetM(timer_stop(M))
  /\ StackAlias
  /\ Rest
  /\ UNCHANGED <<attrs, items, nmut, nbegin>>

\* the one-shot timer fires: timeout.connect(self.end_action)
Timeout ==
  /\ timer_active
  /\ SetM(end_action(timer_stop(M), None, attrs, items))
  /\ StackAlias
  /\ Rest
  /\ UNCHANGED <<attrs, items, nmut, nbegin>>

\* UndoManager.undo
Undo ==
  /\ LET r == UndoManager_undo(M, attrs, items)
     IN SetM(r.m) /\ attrs' = r.attrs /\ items' = r.items
  /\ IF position > 0 /\ position' = position - 1 THEN RestoreAlias(position, 1)
     ELSE UNCHANGED alias
  /\ Rest
  /\ UNCHANGED <<nmut, nbegin>>

\* UndoManager.redo
Redo ==
  /\ LET r == UndoManager_redo(M, attrs, items)
     IN SetM(r.m) /\ attrs' = r.attrs /\ items' = r.items
  /\ IF position < Len(actions) /\ position' = position + 1
     THEN RestoreAlias(position + 1, 2)
     ELSE UNCHANGED alias
  /\ Rest
  /\ UNCHANGED <<nmut, nbegin>>

\* UndoManager.reset
Reset ==
  /\ SetM(reset(M))
  /\ StackAlias
  /\ Rest
  /\ UNCHANGED <<attrs, items, nmut, nbegin>>

(***************************************************************************)
(* The user interface's mutations of the domain objects.                   *)
(***************************************************************************)
Mutation ==
  /\ nmut < MaxMut
  /\ nmut' = nmut + 1
  /\ UNCHANGED <<actions, position, begin_state, action_things, group,
                 timer_active, interval, nbegin, alias>>
  /\ seen' = <<>>
  /\ Rest

ScalarField(o) == IF o = "a" THEN "duration" ELSE "time_offset"

\* thing.field = v
SetField(o, v) ==
  /\ Mutation
  /\ <<o, ScalarField(o)>> \notin sealed
  /\ attrs[o][ScalarField(o)] # Num(v)
  /\ attrs' = [attrs EXCEPT ![o][ScalarField(o)] = Num(v)]
  /\ raised' = None
  /\ UNCHANGED items

\* Transport.toggle_mark at time t: mutates the list in place
ToggleMark(t) ==
  /\ Mutation
  /\ LET marks == attrs["a"].marks
     IN IF marks.kind = "list"
        THEN /\ attrs' = [attrs EXCEPT !["a"].marks =
                            List(IF Has(marks.val, t)
                                 THEN Without(marks.val, t)
                                 ELSE Sorted(marks.val, t))]
             /\ raised' = None
        ELSE \* a tuple has no remove() and no append()
             /\ attrs' = attrs
             /\ raised' = "AttributeError"
  /\ UNCHANGED items

\* units.append(o)
AppendUnit(o) ==
  /\ Mutation
  /\ ~Has(items["units"], o)
  /\ items' = [items EXCEPT !["units"] = Append(@, o)]
  /\ raised' = None
  /\ UNCHANGED attrs

\* units.remove(o)
RemoveUnit(o) ==
  /\ Mutation
  /\ Has(items["units"], o)
  /\ items' = [items EXCEPT !["units"] = Without(@, o)]
  /\ raised' = None
  /\ UNCHANGED attrs

\* the selection becomes sel
Select(sel) ==
  /\ Mutation
  /\ items["models"] # sel
  /\ items' = [items EXCEPT !["models"] = sel]
  /\ raised' = None
  /\ UNCHANGED attrs

Next ==
  \/ \E things \in Things, t \in {None, "T"}, g \in Groups \cup {None} :
       BeginAction(things, t, g) /\ ObserveBegin(things, t, g)
  \/ \E g \in Groups \cup {None} : EndAction(g) /\ ObserveEnd("end_action", g)
  \/ Timeout /\ ObserveEnd("timeout", None)
  \/ Undo /\ ObserveUndo
  \/ Redo /\ ObserveRedo
  \/ Reset /\ ObserveReset
  \/ \E o \in Plain, v \in 0..MaxVal :
       SetField(o, v) /\ ObserveMut(<<o, ScalarField(o)>>)
  \/ \E t \in 1..MaxMark : ToggleMark(t) /\ ObserveMut(<<"a", "marks">>)
  \/ \E o \in Plain : AppendUnit(o) /\ ObserveMut(<<"units", ListKey>>)
  \/ \E o \in Plain : RemoveUnit(o) /\ ObserveMut(<<"units", ListKey>>)
  \/ \E sel \in Selections :
       Select(sel) /\ ObserveMut(<<"models", ListKey>>)

Spec == Init /\ [][Next]_vars

\* the event loop delivers the timeout of a timer that stays armed
Expire == Timeout /\ ObserveEnd("timeout", None)

\* thing.props[k] = v: the mapping is changed in place, and with it every
\* stored value that is the same object
DictSetItem(o, v) ==
  /\ nmut < MaxMut
  /\ nmut' = nmut + 1
  /\ attrs[o].props # Dict(v)
  /\ attrs' = [attrs EXCEPT ![o].props = Dict(v)]
  /\ actions' =
       [i \in 1..Len(actions) |->
          [n \in 1..2 |->
             [k \in DOMAIN actions[i][n] |->
                IF [loc |-> <<o, "props">>, i |-> i, n |-> n] \in alias
                   /\ k = <<o, "props">>
                THEN Dict(v) ELSE actions[i][n][k]]]]
  /\ raised' = None
  /\ UNCHANGED <<items, position, begin_state, action_things, group,
                 timer_active, interval, nbegin, alias>>
  /\ seen' = <<>>
  /\ Rest

\* the object o stops accepting an assignment to its field f
Seal(o, f) ==
  /\ <<o, f>> \notin sealed
  /\ sealed' = sealed \cup {<<o, f>>}
  /\ seen' = <<>>
  /\ UNCHANGED <<attrs, items, actions, position, begin_state, action_things,
                 group, timer_active, interval, raised, nmut, nbegin, alias, refs,
                 captured, transport>>

\* the edits of one object with a number-valued and a mapping-valued field,
\* each inside begin_action(a) ... end_action(), with undo and redo
RestoreNext ==
  \/ BeginAction(One("a"), None, None) /\ ObserveBegin(One("a"), None, None)
  \/ EndAction(None) /\ ObserveEnd("end_action", None)
  \/ Undo /\ ObserveUndo
  \/ Redo /\ ObserveRedo
  \/ \E v \in 0..MaxVal :
       SetField("a", v) /\ ObserveMut(<<"a", ScalarField("a")>>)
  \/ \E v \in 0..MaxVal :
       DictSetItem("a", v) /\ ObserveMut(<<"a", "props">>)
  \/ \E f \in {"duration", "props"} :
       Seal("a", f) /\ last' = Op("seal", None)
                   /\ UNCHANGED <<ep, reach0, before_undo>>

RestoreSpec == Init /\ [][RestoreNext]_vars

\* the heaps a walk is run on: the containers hold any of these contents
\* (themselves and each other included), the objects have any of these
\* model references, and the field view of "a" is a number or refers to "b"
WalkContents == {<<>>, <<"a">>, <<"a", "b">>, <<"models">>, <<"units">>}
WalkRefs == {<<>>, <<"a">>, <<"b">>}
WalkThings == {One("a"), One("units"), Tup(<<"units", "b">>)}

WalkInit ==
  /\ \E v \in {Num(0), Obj("b")} :
       attrs = [o \in Plain |->
                  IF o = "a"
                  THEN [duration |-> Num(0), marks |-> List(<<>>),
                        _time |-> Num(0), view |-> v, on_change |-> Callable]
                  ELSE [time_offset |-> Num(0)]]
  /\ items \in [Containers -> WalkContents]
  /\ refs \in {r \in [Objects -> WalkRefs] :
                 \A o \in Objects \ Plain : r[o] = <<>>}
  /\ captured = <<>>
  /\ seen = <<>>
  /\ transport = Transport_init
  /\ actions = <<>>
  /\ position = 0
  /\ begin_state = <<>>
  /\ action_things = <<>>
  /\ group = None
  /\ timer_active = FALSE
  /\ interval = None
  /\ raised = None
  /\ nmut = 0
  /\ nbegin = 0
  /\ last = Op("init", None)
  /\ ep = EpNone
  /\ reach0 = {}
  /\ before_undo = EmptyState
  /\ sealed = {}
  /\ alias = {}

\* UndoStack.save_state(things)
Capture(things) ==
  /\ captured' = <<capture(things, attrs, items)>>
  /\ UNCHANGED <<attrs, items, actions, position, begin_state, action_things,
                 group, timer_active, interval, raised, nmut, nbegin, last, ep, reach0,
                 before_undo, sealed, alias, refs, seen, transport>>

WalkNext == \E things \in WalkThings : Capture(things)

WalkSpec == WalkInit /\ [][WalkNext]_vars

\* the debounced editing of one object: key presses that begin a debounced
\* action on "b" (views/block.py on_key), other handlers that begin a plain
\* or a named action on it, and the timer
LiveNext ==
  \/ \E t \in {None, "T"}, g \in {None, "G1"} :
       BeginAction(One("b"), t, g) /\ ObserveBegin(One("b"), t, g)
  \/ \E g \in {None, "G1"} : EndAction(g) /\ ObserveEnd("end_action", g)
  \/ Expire
  \/ Undo /\ ObserveUndo
  \/ Redo /\ ObserveRedo
  \/ Reset /\ ObserveReset
  \/ \E v \in 0..MaxVal :
       SetField("b", v) /\ ObserveMut(<<"b", ScalarField("b")>>)

LiveSpec == Init /\ [][LiveNext]_vars /\ WF_vars(Expire)

\* an object "a" that has "b" as its model reference; "b" is no unit and is
\* not selected
RefsInit ==
  /\ attrs = InitAttrs
  /\ items = [c \in Containers |-> IF c = "units" THEN <<"a">> ELSE <<>>]
  /\ refs = [o \in Objects |-> IF o = "a" THEN <<"b">> ELSE <<>>]
  /\ actions = <<>>
  /\ position = 0
  /\ begin_state = <<>>
  /\ action_things = <<>>
  /\ group = None
  /\ timer_active = FALSE
  /\ interval = None
  /\ raised = None
  /\ nmut = 0
  /\ nbegin = 0
  /\ last = Op("init", None)
  /\ ep = EpNone
  /\ reach0 = {}
  /\ before_undo = EmptyState
  /\ sealed = {}
  /\ alias = {}
  /\ captured = <<>>
  /\ seen = <<>>
  /\ transport = Transport_init

\* edits of "a" and of the object it refers to, inside begin_action(a) ...
\* end_action() and outside, with undo and redo
RefsNext ==
  \/ BeginAction(One("a"), None, None) /\ ObserveBegin(One("a"), None, None)
  \/ EndAction(None) /\ ObserveEnd("end_action", None)
  \/ Undo /\ ObserveUndo
  \/ Redo /\ ObserveRedo
  \/ \E o \in Plain, v \in 0..MaxVal :
       SetField(o, v) /\ ObserveMut(<<o, ScalarField(o)>>)

RefsSpec == RefsInit /\ [][RefsNext]_vars

\* an object with a private field and a field that holds a callable
FilterInit ==
  /\ attrs = [o \in Plain |->
                IF o = "a"
                THEN [duration |-> Num(0), _time |-> Num(0),
                      on_change |-> Callable]
                ELSE [time_offset |-> Num(0)]]
  /\ items = [c \in Containers |-> IF c = "units" THEN <<"a">> ELSE <<>>]
  /\ refs = [o \in Objects |-> <<>>]
  /\ actions = <<>>
  /\ position = 0
  /\ begin_state = <<>>
  /\ action_things = <<>>
  /\ group = None
  /\ timer_active = FALSE
  /\ interval = None
  /\ raised = None
  /\ nmut = 0
  /\ nbegin = 0
  /\ last = Op("init", None)
  /\ ep = EpNone
  /\ reach0 = {}
  /\ before_undo = EmptyState
  /\ sealed = {}
  /\ alias = {}
  /\ captured = <<>>
  /\ seen = <<>>
  /\ transport = Transport_init

\* Transport.time = v: the setter writes the private field _time
SetTime(v) ==
  /\ Mutation
  /\ attrs["a"]._time # Num(v)
  /\ attrs' = [attrs EXCEPT !["a"]._time = Num(v)]
  /\ raised' = None
  /\ UNCHANGED items

\* edits of the public and the private field of "a" and of the field of
\* "b", inside actions begun on "a" or on the tuple (a, b), with undo and
\* redo
FilterNext ==
  \/ \E things \in {One("a"), Tup(<<"a", "b">>)} :
       BeginAction(things, None, None) /\ ObserveBegin(things, None, None)
  \/ EndAction(None) /\ ObserveEnd("end_action", None)
  \/ Undo /\ ObserveUndo
  \/ Redo /\ ObserveRedo
  \/ \E o \in Plain, v \in 0..MaxVal :
       SetField(o, v) /\ ObserveMut(<<o, ScalarField(o)>>)
  \/ \E v \in 0..MaxVal : SetTime(v) /\ ObserveMut(<<"a", "_time">>)

FilterSpec == FilterInit /\ [][FilterNext]_vars

\* plain and debounced actions on "a", each begun when no other is in
\* flight or while the debounce timer is armed, with every change of "a"
\* made while an action is in flight, and undo and redo at any time
HistNext ==
  \/ \E t \in {None, "T"} :
       /\ begin_state = <<>> \/ timer_active
       /\ BeginAction(One("a"), t, None) /\ ObserveBegin(One("a"), t, None)
  \/ EndAction(None) /\ ObserveEnd("end_action", None)
  \/ Expire
  \/ Undo /\ ObserveUndo
  \/ Redo /\ ObserveRedo
  \/ \E v \in 0..MaxVal :
       /\ begin_state # <<>>
       /\ SetField("a", v) /\ ObserveMut(<<"a", ScalarField("a")>>)

HistSpec == Init /\ [][HistNext]_vars

\* the durations a debounced action is begun with
Timeouts == {"T", "T2"}

\* debounced editing of two objects with two durations, with handlers that
\* begin a plain or a named action, explicit end_action calls and the timer
DebounceNext ==
  \/ \E o \in Plain, t \in Timeouts \cup {None}, g \in {None, "G1"} :
       BeginAction(One(o), t, g) /\ ObserveBegin(One(o), t, g)
  \/ \E g \in {None, "G1"} : EndAction(g) /\ ObserveEnd("end_action", g)
  \/ Expire
  \/ Undo /\ ObserveUndo
  \/ \E o \in Plain, v \in 0..MaxVal :
       SetField(o, v) /\ ObserveMut(<<o, ScalarField(o)>>)

DebounceSpec == Init /\ [][DebounceNext]_vars

\* an object that is its own model reference
CycleInit ==
  /\ attrs = InitAttrs
  /\ items = [c \in Containers |-> IF c = "units" THEN <<"a">> ELSE <<>>]
  /\ refs = [o \in Objects |-> IF o = "a" THEN <<"a">> ELSE <<>>]
  /\ actions = <<>>
  /\ position = 0
  /\ begin_state = <<>>
  /\ action_things = <<>>
  /\ group = None
  /\ timer_active = FALSE
  /\ interval = None
  /\ raised = None
  /\ nmut = 0
  /\ nbegin = 0
  /\ last = Op("init", None)
  /\ ep = EpNone
  /\ reach0 = {}
  /\ before_undo = EmptyState
  /\ sealed = {}
  /\ alias = {}
  /\ captured = <<>>
  /\ seen = <<>>
  /\ transport = Transport_init

\* handlers that begin plain, debounced and named actions on "a" and on "b",
\* end them and edit the two objects; the timer
CycleNext ==
  \/ \E o \in Plain, t \in {None, "T"}, g \in {None, "G1"} :
       BeginAction(One(o), t, g) /\ ObserveBegin(One(o), t, g)
  \/ \E g \in {None, "G1"} : EndAction(g) /\ ObserveEnd("end_action", g)
  \/ Expire
  \/ \E o \in Plain, v \in 0..MaxVal :
       SetField(o, v) /\ ObserveMut(<<o, ScalarField(o)>>)

CycleSpec == CycleInit /\ [][CycleNext]_vars

\* a container that has fields of its own, one of them a private field
\* with the sentinel's name, and a member with such a field
SentinelInit ==
  /\ attrs = [o \in {"a", "units"} |->
                IF o = "a" THEN [duration |-> Num(0), _list |-> Num(0)]
                ELSE [label |-> Num(0), _list |-> Num(0)]]
  /\ items = [c \in Containers |-> IF c = "units" THEN <<"a">> ELSE <<>>]
  /\ refs = [o \in Objects |-> <<>>]
  /\ actions = <<>>
  /\ position = 0
  /\ begin_state = <<>>
  /\ action_things = <<>>
  /\ group = None
  /\ timer_active = FALSE
  /\ interval = None
  /\ raised = None
  /\ nmut = 0
  /\ nbegin = 0
  /\ last = Op("init", None)
  /\ ep = EpNone
  /\ reach0 = {}
  /\ before_undo = EmptyState
  /\ sealed = {}
  /\ alias = {}
  /\ captured = <<>>
  /\ seen = <<>>
  /\ transport = Transport_init

\* thing.f = v
SetAttr(o, f, v) ==
  /\ Mutation
  /\ attrs[o][f] # Num(v)
  /\ attrs' = [attrs EXCEPT ![o][f] = Num(v)]
  /\ raised' = None
  /\ UNCHANGED items

\* a mutation that the history variables do not follow
Unfollowed ==
  /\ last' = Op("mutate", None)
  /\ ep' = EpNone
  /\ KeepReach
  /\ NoUndo

\* edits of the container's contents, of its fields and of its member's
\* fields, inside actions begun on the container or on the member, with
\* undo and redo
SentinelNext ==
  \/ \E o \in {"a", "units"} :
       BeginAction(One(o), None, None) /\ ObserveBegin(One(o), None, None)
  \/ EndAction(None) /\ ObserveEnd("end_action", None)
  \/ Undo /\ ObserveUndo
  \/ Redo /\ ObserveRedo
  \/ \E o \in {"a", "units"}, v \in 0..MaxVal :
       SetAttr(o, ListKey, v) /\ Unfollowed
  \/ \E v \in 0..MaxVal : SetAttr("units", "label", v) /\ Unfollowed
  \/ AppendUnit("b") /\ ObserveMut(<<"units", ListKey>>)
  \/ RemoveUnit("a") /\ ObserveMut(<<"units", ListKey>>)

SentinelSpec == SentinelInit /\ [][SentinelNext]_vars

\* the undo manager and the heap are left alone
Elsewhere ==
  UNCHANGED <<attrs, items, actions, position, begin_state, action_things,
              group, timer_active, interval, raised, nmut, nbegin, last, ep,
              reach0, before_undo, sealed, alias, refs, captured, seen>>

\* the transport after the operation name has made it t
Done(name, t) ==
  /\ transport' = [t EXCEPT !.op = name,
                            !.was_playing = transport._playing,
                            !.was_recording = transport._recording,
                            !.twice = FALSE]
  /\ Elsewhere

Play == Done("play", play(transport))

Record == Done("record", record(transport))

Stop == Done("stop", stop(transport))

\* transport.playing = value
AssignPlaying(value) == Done("playing", set_playing(transport, value))

\* transport.recording = value
AssignRecording(value) == Done("recording", set_recording(transport, value))

\* transport.time = v
AssignTime(v) == Done("time", set_time(transport, v))

SkipBack == Done("skip_back", skip_back(transport))

SkipForward ==
  /\ time(transport) < MaxTime
  /\ Done("skip_forward", skip_forward(transport))

\* transport.toggle_mark()
ToggleMarkNow ==
  /\ transport' = [toggle_mark(transport) EXCEPT
                     !.op = "toggle_mark",
                     !.was_playing = transport._playing,
                     !.was_recording = transport._recording,
                     !.marks1 = transport.marks,
                     !.marks0 = transport.marks1,
                     !.twice = (transport.op = "toggle_mark")]
  /\ Elsewhere

\* GLib runs the callback of a scheduled idle source
OnRunning ==
  /\ transport.sources # {}
  /\ Done("on_running", on_running(transport))

\* the clock advances
Tick ==
  /\ transport.now < MaxClock
  /\ transport._start_time # <<>> => time(transport) < MaxTime
  /\ Done("tick", [transport EXCEPT !.now = @ + 1])

TransportNext ==
  \/ Play
  \/ Record
  \/ Stop
  \/ \E value \in Assigned : AssignPlaying(value)
  \/ \E value \in Assigned : AssignRecording(value)
  \/ \E v \in -1..MaxTime : AssignTime(v)
  \/ SkipBack
  \/ SkipForward
  \/ ToggleMarkNow
  \/ OnRunning
  \/ Tick

TransportSpec == Init /\ [][TransportNext]_vars

(***************************************************************************)
(* The claims.                                                             *)
(***************************************************************************)
\* what a snapshot is to hold for a location with value v: a list as a
\* tuple of its entries, anything else as it is
Snap(loc, v) ==
  IF loc[2] # ListKey /\ v.kind = "list" THEN Tuple(v.val) ELSE v

\* the locations a followed action changed
Changed == {loc \in DOMAIN ep.pre : ep.pre[loc] # ep.post[loc]}

\* the followed action was ended by the call that finalizes it
Finalized == ep.kind \in {"plain", "debounce", "group"}

\* the top delta holds, for every changed location, the value before the
\* action in its undo-map and the value after it in its redo-map
TopCovers ==
  /\ position > 0
  /\ \A loc \in Changed :
       /\ loc \in DOMAIN actions[position][1]
       /\ loc \in DOMAIN actions[position][2]
       /\ actions[position][1][loc] = Snap(loc, ep.pre[loc])
       /\ actions[position][2][loc] = Snap(loc, ep.post[loc])

\* exactly one delta was pushed since the followed action began
OnePushed ==
  /\ position = ep.position0 + 1
  /\ Len(actions) = ep.position0 + 1
  /\ SubSeq(actions, 1, ep.position0) = SubSeq(ep.actions0, 1, ep.position0)

\* C1: after begin_action(root); M; end_action(); undo() every location M
\* changed has its value from before M, and after a following redo() its
\* value from after M
RoundTrip ==
  (ep.kind = "plain" /\ ~ep.stray /\ Changed # {})
  => /\ ep.phase = "undone"
          => \A loc \in DOMAIN ep.pre : At(attrs, items, loc) = ep.pre[loc]
     /\ ep.phase = "redone"
          => \A loc \in DOMAIN ep.pre : At(attrs, items, loc) = ep.post[loc]

\* C2, as stated: begin_action(x); end_action() with no mutation in between
\* leaves the deltas and the position as they were, and no delta has two
\* empty maps
NoopPairAlways ==
  /\ (/\ ep.phase = "ended" /\ last.op = "end_action"
      /\ Len(ep.calls) = 1 /\ ep.calls[1].locs = {} /\ ~ep.stray)
     => (actions = ep.actions0 /\ position = ep.position0)
  /\ \A i \in 1..Len(actions) :
       DOMAIN actions[i][1] # {} \/ DOMAIN actions[i][2] # {}

\* C2, amended: the same, for a begin_action called while no named group is
\* active and the debounce timer is not armed
NoopPair ==
  /\ (/\ ep.phase = "ended" /\ last.op = "end_action"
      /\ Len(ep.calls) = 1 /\ ep.calls[1].locs = {} /\ ~ep.stray
      /\ ~ep.armed)
     => (actions = ep.actions0 /\ position = ep.position0)
  /\ \A i \in 1..Len(actions) :
       DOMAIN actions[i][1] # {} \/ DOMAIN actions[i][2] # {}

\* C2: a begin_action; end_action pair with nothing in between has just run
\* on a stack with a redoable delta
NoopPairSeen ==
  /\ ep.phase = "ended" /\ last.op = "end_action"
  /\ Len(ep.calls) = 1 /\ ep.calls[1].locs = {} /\ ~ep.stray /\ ~ep.armed
  /\ position < Len(actions)

\* C3: a commit that changes the stack at position p leaves the first p old
\* deltas followed by one new delta, at position p+1, so nothing can be redone
PushTruncates ==
  [][(/\ last'.op \in {"begin_action", "end_action", "timeout"}
      /\ (actions' # actions \/ position' # position))
     => /\ position' = position + 1
        /\ Len(actions') = position + 1
        /\ SubSeq(actions', 1, position) = SubSeq(actions, 1, position)
        /\ ~(position' < Len(actions'))]_vars

\* C3: an end_action has just committed on a stack that had redoable deltas
TruncatedOnCommit ==
  /\ last.op = "end_action"
  /\ last.cr
  /\ position = Len(actions)

\* C4: two begin_action(roots, end_timeout=T) calls, the second while the
\* timer of the first is armed, each followed by a mutation of another
\* location of the roots, end in exactly one delta, which holds the values
\* from before the first mutation and from after the second
Coalescing ==
  (/\ ep.phase = "ended" /\ ep.kind = "debounce" /\ ~ep.armed /\ ~ep.stray
   /\ Len(ep.calls) = 2
   /\ ep.calls[1].things = ep.calls[2].things
   /\ ep.calls[1].locs # {} /\ ep.calls[2].locs # {}
   /\ ep.calls[1].locs \cap ep.calls[2].locs = {}
   /\ Changed # {})
  => (OnePushed /\ TopCovers)

\* C4: the timer has just ended an action of two debounced calls, each
\* followed by its own mutation
CoalescedSeen ==
  /\ ep.phase = "ended" /\ ep.kind = "debounce" /\ ~ep.armed /\ ~ep.stray
  /\ last.op = "timeout"
  /\ Len(ep.calls) = 2
  /\ ep.calls[1].things = ep.calls[2].things
  /\ ep.calls[1].locs # {} /\ ep.calls[2].locs # {}
  /\ ep.calls[1].locs \cap ep.calls[2].locs = {}
  /\ Cardinality(Changed) = 2

\* a begin_action while a named group is active pushes nothing, keeps the
\* group, the timer and every entry of the before-snapshot; while the group
\* is active only end_action(group) pushes, and it leaves one delta more
\* than the position it met
GroupJoinStep ==
  /\ (group # None /\ last'.op = "begin_action")
     => /\ UNCHANGED <<actions, position, group, timer_active>>
        /\ begin_state # <<>> =>
             /\ begin_state' # <<>>
             /\ \A k \in DOMAIN begin_state[1] :
                  /\ k \in DOMAIN begin_state'[1]
                  /\ begin_state'[1][k] = begin_state[1][k]
  /\ (group # None /\ actions' # actions /\ last'.op # "reset")
     => /\ last'.op = "end_action" /\ last'.g = group
        /\ Len(actions') = position + 1

\* the delta of a finished group holds the changes to the roots of every
\* call of the group
GroupJoinEnd ==
  (ep.phase = "ended" /\ ep.kind = "group" /\ ~ep.stray /\ Changed # {})
  => (OnePushed /\ TopCovers)

\* C5: group join. Every step keeps to GroupJoinStep (a begin_action while
\* a group is active starts no second capture and pushes nothing; only
\* end_action(group) pushes, one delta) and every state to GroupJoinEnd (the
\* delta covers the changes to the roots of every call of the group)
GroupJoin == []GroupJoinEnd /\ [][GroupJoinStep]_vars

\* C5: end_action(G) has just ended a group of two calls with different
\* roots, each followed by a change to its root
GroupJoinSeen ==
  /\ ep.phase = "ended" /\ ep.kind = "group" /\ ~ep.stray
  /\ Len(ep.calls) = 2
  /\ ep.calls[1].things # ep.calls[2].things
  /\ ep.calls[1].locs # {} /\ ep.calls[2].locs # {}
  /\ \A i \in 1..2 : \A loc \in ep.calls[i].locs :
       /\ Has(ep.calls[i].things.elems, loc[1])
       /\ loc \in Changed

\* C6: end_action(g) while a group other than g is active changes neither the
\* stack, the position, the before-snapshot, the tracked roots nor the group
EndMismatchNoop ==
  [][(last'.op = "end_action" /\ group # None /\ last'.g # group)
     => UNCHANGED <<actions, position, begin_state, action_things, group>>]_vars

\* C6: end_action was just called with another identifier than the open group's
MismatchedEndSeen ==
  /\ last.op = "end_action"
  /\ group # None /\ last.g # group
  /\ begin_state # <<>>
  /\ \E loc \in DOMAIN ep.pre : TRUE

\* C7: undoing a finalized action that changed the selection puts the
\* selection back as it was when the action began, and redoing it puts back
\* the selection the action left
SelectionPersistence ==
  (Finalized /\ <<"models", ListKey>> \in Changed)
  => /\ ep.phase = "undone" => items["models"] = ep.pre[<<"models", ListKey>>]
     /\ ep.phase = "redone" => items["models"] = ep.post[<<"models", ListKey>>]

\* C7: an action that deselected "b" has been undone, and "b" is selected
SelectionRestoredSeen ==
  /\ ep.phase = "undone" /\ Finalized
  /\ <<"models", ListKey>> \in Changed
  /\ ep.pre[<<"models", ListKey>>] = <<"b">>
  /\ items["models"] = <<"b">>

\* C8: the position is between 0 and the number of deltas
PositionInRange == position \in 0..Len(actions)

\* C8: a reset has just emptied a stack that had undoable deltas
ResetAfterCommit == last.op = "reset" /\ last.cu /\ actions = <<>>

\* C9, as stated: the undo-map and the redo-map of every delta have the
\* same keys
SameKeySets ==
  \A i \in 1..Len(actions) : DOMAIN actions[i][1] = DOMAIN actions[i][2]

\* C9, amended: every commit pushes a delta whose maps differ in keys only
\* for objects reachable at one end of the action alone: a key in the
\* undo-map only is a field of an object that is not reachable from the
\* tracked roots when the action ends, a key in the redo-map only a field of
\* an object that was not reachable when the action began; every other key
\* is in both maps or in neither
SameKeysWhereReachable ==
  [][(/\ last'.op \in {"begin_action", "end_action", "timeout"}
      /\ (actions' # actions \/ position' # position))
     => LET delta == actions'[position']
            end == Reach(IF action_things = <<>> THEN <<>> ELSE action_things[1],
                         items)
        IN /\ \A k \in DOMAIN delta[1] \ DOMAIN delta[2] :
                k[2] # ListKey /\ k[1] \notin end
           /\ \A k \in DOMAIN delta[2] \ DOMAIN delta[1] :
                k[2] # ListKey /\ k[1] \notin reach0]_vars

\* C9: a delta that removed "a" from units and changed a field of "b"
RemovalDeltaSeen ==
  \E i \in 1..Len(actions) :
    /\ <<"a", "duration">> \in DOMAIN actions[i][1] \ DOMAIN actions[i][2]
    /\ <<"b", "time_offset">> \in DOMAIN actions[i][1] \cap DOMAIN actions[i][2]

\* C10: undo() with nothing to undo and redo() with nothing to redo raise
\* nothing and change neither the position, the deltas nor the objects
UndoRedoNoop ==
  [][/\ (last'.op = "undo" /\ ~(position > 0))
          => (UNCHANGED <<position, actions, attrs, items>> /\ raised' = None)
     /\ (last'.op = "redo" /\ ~(position < Len(actions)))
          => (UNCHANGED <<position, actions, attrs, items>> /\ raised' = None)
    ]_vars

\* C10: undo() was just called on a stack with deltas and nothing left to undo
UndoWithNothingToUndo ==
  /\ last.op = "undo" /\ ~last.cu
  /\ position = 0 /\ Len(actions) > 0

\* C11: can_undo is true exactly when position > 0 and can_redo exactly when
\* position < the number of deltas, and the manager's two properties equal
\* those of its stack
CanUndoRedo ==
  /\ can_undo(M) <=> position > 0
  /\ can_redo(M) <=> position < Len(actions)
  /\ UndoManager_can_undo(M) = can_undo(M)
  /\ UndoManager_can_redo(M) = can_redo(M)

\* C11: a stack with something to undo and something to redo
UndoAndRedoPossible ==
  /\ can_undo(M) /\ can_redo(M)
  /\ last.op = "undo"

\* every (object, field) and every container of the heap
Locs ==
  {loc \in Plain \X {"duration", "marks", "_time", "props", "time_offset"} :
     loc[2] \in DOMAIN attrs[loc[1]]}
  \cup {<<c, ListKey>> : c \in Containers}

\* the step wrote state back: every key of state has the value state holds
\* for it, every other location is as it was
Wrote(state) ==
  \A loc \in Locs :
    At(attrs', items', loc) = IF loc \in DOMAIN state THEN state[loc]
                             ELSE At(attrs, items, loc)

\* undo() with can_undo moves the position down by one and writes back the
\* undo-map of the delta at the new position; the deltas stay as they are
UndoStep ==
  (last'.op = "undo" /\ position > 0)
  => /\ position' = position - 1
     /\ actions' = actions
     /\ Wrote(actions[position][1])

\* redo() with can_redo writes back the redo-map of the delta at the
\* position and moves the position up by one; the deltas stay as they are
RedoStep ==
  (last'.op = "redo" /\ position < Len(actions))
  => /\ position' = position + 1
     /\ actions' = actions
     /\ Wrote(actions[position + 1][2])

Finalizes ==
  /\ ~timer_active'
  /\ begin_state' = <<>>
  /\ action_things' = <<>>
  /\ group' = None

\* the action that was just ended while its timer was armed left one delta,
\* which holds every change made to its roots
ArmedEndPushes ==
  (/\ ep.phase = "ended" /\ last.op = "end_action" /\ last.ta
   /\ ep.kind \in {"debounce", "group"} /\ ~ep.stray
   /\ \A i \in 1..Len(ep.calls) : ep.calls[i].things = ep.calls[1].things
   /\ Changed # {})
  => (OnePushed /\ TopCovers)

\* C13, as stated: any end_action call made while the timer is armed stops
\* the timer and finalizes the action in flight
EndCancelsTimerAlways ==
  /\ []ArmedEndPushes
  /\ [][(last'.op = "end_action" /\ timer_active) => Finalizes]_vars

\* C13, amended: an end_action call made while the timer is armed, with no
\* named group active or with the active group's identifier, stops the timer
\* and finalizes the action in flight, pushing a delta with the changes made
\* to its roots; the timer, being stopped, cannot expire afterwards
EndCancelsTimer ==
  /\ []ArmedEndPushes
  /\ [][(/\ last'.op = "end_action" /\ timer_active
         /\ (group = None \/ last'.g = group))
        => Finalizes]_vars

\* C13: end_action() has just ended a debounced action with changes while
\* its timer was armed
ArmedEndSeen ==
  /\ ep.phase = "ended" /\ last.op = "end_action" /\ last.ta
  /\ ep.kind = "debounce" /\ ~ep.stray
  /\ Changed # {}
  /\ ~timer_active

\* the action that the timer just ended left one delta, which holds every
\* change made to its roots
ExpiryPushes ==
  (/\ ep.phase = "ended" /\ last.op = "timeout"
   /\ ep.kind = "debounce" /\ ~ep.stray
   /\ \A i \in 1..Len(ep.calls) : ep.calls[i].things = ep.calls[1].things
   /\ Changed # {})
  => (OnePushed /\ TopCovers)

\* nothing is in flight after the step
NothingInFlight ==
  /\ begin_state' = <<>>
  /\ action_things' = <<>>
  /\ group' = None

\* C14, as stated: an armed timer eventually expires (or is stopped), and
\* its expiry finalizes the action whatever group the action was begun with:
\* the changes are pushed and nothing stays in flight
ExpiryFinalizesAlways ==
  /\ timer_active ~> ~timer_active
  /\ []ExpiryPushes
  /\ [][last'.op = "timeout" => NothingInFlight]_vars

\* C14, amended: an armed timer eventually expires (or is stopped), and its
\* expiry finalizes the action when no named group is active: the changes
\* are pushed and nothing stays in flight
ExpiryFinalizes ==
  /\ timer_active ~> ~timer_active
  /\ []ExpiryPushes
  /\ [][(last'.op = "timeout" /\ group = None) => NothingInFlight]_vars

\* C14: the timer has just expired and ended a debounced action with changes
ExpirySeen ==
  /\ ep.phase = "ended" /\ last.op = "timeout" /\ last.ta
  /\ ep.kind = "debounce" /\ ~ep.stray
  /\ Changed # {}
  /\ position = ep.position0 + 1

\* C15: end_action(g), for any g, called with no before-snapshot and no named
\* group raises nothing and leaves the deltas and the position as they were
StrayEndNoop ==
  [][(last'.op = "end_action" /\ begin_state = <<>> /\ group = None)
     => (UNCHANGED <<actions, position>> /\ raised' = None)]_vars

\* C15: end_action('G1') was just called with nothing in flight, on a stack
\* that holds a delta
StrayEndSeen ==
  /\ last.op = "end_action" /\ last.g = "G1"
  /\ ~last.fl
  /\ Len(actions) > 0

\* C16: reset() leaves no deltas, position 0, nothing to undo or redo, no
\* tracked roots, no before-snapshot, no group and no armed timer, and the
\* step after a reset() is never a timer expiry
ResetClears ==
  [][/\ last'.op = "reset"
        => /\ actions' = <<>> /\ position' = 0
           /\ ~(position' > 0) /\ ~(position' < Len(actions'))
           /\ action_things' = <<>> /\ begin_state' = <<>>
           /\ group' = None /\ ~timer_active'
     /\ last.op = "reset" => last'.op # "timeout"]_vars

\* C16: reset() was just called with deltas on the stack, an action in
\* flight and the timer armed
ResetInFlightSeen ==
  /\ last.op = "reset"
  /\ last.cu /\ last.fl /\ last.ta

\* C17: an undo() or redo() that meets entries of fields its target no
\* longer accepts raises nothing, leaves those fields as they are, writes
\* every other entry of the map and moves the position by one
RestoreTolerates ==
  [][/\ (last'.op = "undo" /\ position > 0)
        => /\ raised' = None
           /\ position' = position - 1
           /\ \A loc \in DOMAIN actions[position][1] :
                At(attrs', items', loc) =
                  IF loc \in sealed THEN At(attrs, items, loc)
                  ELSE actions[position][1][loc]
     /\ (last'.op = "redo" /\ position < Len(actions))
        => /\ raised' = None
           /\ position' = position + 1
           /\ \A loc \in DOMAIN actions[position + 1][2] :
                At(attrs', items', loc) =
                  IF loc \in sealed THEN At(attrs, items, loc)
                  ELSE actions[position + 1][2][loc]]_vars

\* C17: an undo() has just met a delta with an entry for a field that is no
\* longer accepted, left that field with another value than the entry's,
\* and written another entry
SkippedEntrySeen ==
  /\ last.op = "undo" /\ last.cu
  /\ \E loc \in DOMAIN before_undo \cap sealed :
       /\ At(attrs, items, loc) = before_undo[loc]
       /\ At(attrs, items, loc) # actions[position + 1][1][loc]
  /\ \E loc \in DOMAIN before_undo \ sealed :
       /\ At(attrs, items, loc) # before_undo[loc]
       /\ At(attrs, items, loc) = actions[position + 1][1][loc]

\* C18: no mutation of an object changes a delta on the stack
HistoryImmune ==
  [][last'.op = "mutate" => actions' = actions]_vars

\* the objects a field of o refers to
FieldObjects(o) ==
  IF o \in Plain
  THEN {x \in Objects : \E f \in DOMAIN attrs[o] : attrs[o][f] = Obj(x)}
  ELSE {}

\* the objects next to o: its elements, its model references and, with
\* fields, the objects its fields refer to
Next1(o, fields) ==
  {x \in Objects : (o \in Containers /\ Has(items[o], x)) \/ Has(refs[o], x)}
  \cup (IF fields THEN FieldObjects(o) ELSE {})

RECURSIVE Reachable(_, _)
\* the objects reachable from the objects of S
Reachable(S, fields) ==
  LET more == S \cup UNION {Next1(o, fields) : o \in S}
  IN IF more = S THEN S ELSE Reachable(more, fields)

\* the walk's result has an entry for every public field that is not
\* callable of every object of R, holding the field's value (a list as a
\* tuple), and a contents entry for every container of R
Covers(state, R) ==
  /\ \A o \in R \cap Plain : \A f \in DOMAIN attrs[o] :
       (f \notin PrivateNames /\ attrs[o][f] # Callable)
       => /\ <<o, f>> \in DOMAIN state
          /\ state[<<o, f>>] = Snap(<<o, f>>, attrs[o][f])
  /\ \A c \in R \cap Containers :
       /\ <<c, ListKey>> \in DOMAIN state
       /\ state[<<c, ListKey>>] = items[c]

CaptureTerminates ==
  captured # <<>> => captured[1].raised = None

\* C21: every undo() and every redo() call, one that has nothing to undo or
\* redo included, emits exactly one change notification, and emits it after
\* the stack has moved: the observers find the position the call leaves
ManagerNotifies ==
  [][(last'.op \in {"undo", "redo"}) => seen' = <<position'>>]_vars

\* C21: an undo() with nothing to undo has just notified the observers of a
\* manager whose stack holds deltas
NoopUndoNotified ==
  /\ last.op = "undo" /\ ~last.cu
  /\ Len(actions) > 0
  /\ seen = <<position>>

\* C22: a step that pushes a delta pushes the before-snapshot in flight and
\* the after-snapshot of the tracked roots with the keys that both hold with
\* equal values taken out of both: a key is in the delta exactly when one of
\* the snapshots lacks it or their values differ, the undo-map holds the
\* before-values and the redo-map the after-values
DeltaMinimalComplete ==
  [][(actions' # actions /\ last'.op # "reset" /\ last'.op # "mutate")
     => LET before == begin_state[1]
            after == save_opt(action_things, attrs, items)
            delta == actions'[position']
            differ == {k \in DOMAIN before \cup DOMAIN after :
                         \/ k \notin DOMAIN before
                         \/ k \notin DOMAIN after
                         \/ before[k] # after[k]}
        IN /\ DOMAIN delta[1] \cup DOMAIN delta[2] = differ
           /\ DOMAIN delta[1] = differ \cap DOMAIN before
           /\ DOMAIN delta[2] = differ \cap DOMAIN after
           /\ \A k \in DOMAIN delta[1] : delta[1][k] = before[k]
           /\ \A k \in DOMAIN delta[2] : delta[2][k] = after[k]]_vars

\* C22: end_action() has just pushed the delta of an action on the units
\* and "b": the delta has a key of the undo-map only (a field of a unit that
\* was removed) and no key for the unchanged field of "b"
DeltaWithDroppedKeySeen ==
  /\ ep.phase = "ended" /\ ep.kind = "plain" /\ last.op = "end_action"
  /\ ep.calls[1].things = Tup(<<"units", "b">>)
  /\ position = ep.position0 + 1
  /\ <<"a", "duration">> \in DOMAIN actions[position][1]
  /\ <<"a", "duration">> \notin DOMAIN actions[position][2]
  /\ <<"b", "time_offset">> \notin DOMAIN actions[position][1]
  /\ <<"b", "time_offset">> \notin DOMAIN actions[position][2]

RECURSIVE JoinRoots(_, _)
\* roots, with each of elems that is not yet a root added as a root
JoinRoots(roots, elems) ==
  IF elems = <<>> THEN roots
  ELSE JoinRoots(IF Has(roots, One(Head(elems))) THEN roots
                 ELSE Append(roots, One(Head(elems))),
                 Tail(elems))

RECURSIVE RootsFrom(_, _, _)
\* roots, with the roots of the joining calls among calls[i..] added; a call
\* that only restarted the timer (it has a timeout) adds none
RootsFrom(roots, calls, i) ==
  IF i > Len(calls) THEN roots
  ELSE RootsFrom(IF calls[i].tmo = None
                 THEN JoinRoots(roots, calls[i].things.elems) ELSE roots,
                 calls, i + 1)

\* the root set of the followed action: the things of its first call, the
\* selection and its container, and the roots added by joins
RecordedRoots ==
  RootsFrom(<<ep.calls[1].things, One("Selection"), One("models")>>,
            ep.calls, 2)

\* what is left of two snapshots when the keys they hold with equal values
\* are taken out of both
DeltaOf(before, after) ==
  LET same == {k \in DOMAIN before \cap DOMAIN after : before[k] = after[k]}
  IN <<Restrict(before, DOMAIN before \ same),
       Restrict(after, DOMAIN after \ same)>>

\* C23: an end_action (a call, or the timer's) that meets no named group or
\* the group it names leaves no group, no tracked roots, no before-snapshot
\* and no armed timer; where it ends a followed action, the tracked roots
\* were the first call's things, the selection, its container and the
\* joined things, and the stack gets the delta of the before-snapshot and
\* the snapshot of those roots, or stays as it was when that delta is empty
EndLeavesIdle ==
  [][(/\ last'.op \in {"end_action", "timeout"}
      /\ (group = None \/ last'.g = group))
     => /\ group' = None /\ action_things' = <<>>
        /\ begin_state' = <<>> /\ ~timer_active'
        /\ (ep.phase = "open" /\ begin_state # <<>>)
           => LET delta == DeltaOf(begin_state[1],
                                   save_state(RecordedRoots, attrs, items,
                                              EmptyState))
              IN /\ action_things = <<RecordedRoots>>
                 /\ IF DOMAIN delta[1] = {} /\ DOMAIN delta[2] = {}
                    THEN UNCHANGED <<actions, position>>
                    ELSE /\ position' = position + 1
                         /\ actions' = Append(SubSeq(actions, 1, position),
                                              delta)]_vars

\* C23: end_action('G1') has just ended a group begun on "b" and joined with
\* "a", and left the manager idle with the change of "a" in the new delta
JoinedGroupEndedSeen ==
  /\ ep.phase = "ended" /\ ep.kind = "group" /\ last.op = "end_action"
  /\ Len(ep.calls) = 2
  /\ ep.calls[1].things = One("b") /\ ep.calls[2].things = One("a")
  /\ position = ep.position0 + 1
  /\ <<"a", "duration">> \in DOMAIN actions[position][2]
  /\ group = None /\ action_things = <<>> /\ begin_state = <<>>
  /\ ~timer_active

\* C24, as stated: a begin_action with a timeout, called while the timer is
\* armed and no named group is active, only restarts the timer with the
\* call's duration: before-snapshot, tracked roots, deltas, position and
\* group stay as they are, nobody is notified, and the one pending deadline
\* is the new one
RestartOnlyAlways ==
  [][(/\ last'.op = "begin_action" /\ last'.tmo # None
      /\ timer_active /\ group = None)
     => /\ UNCHANGED <<begin_state, action_things, actions, position>>
        /\ UNCHANGED <<attrs, items, group>>
        /\ timer_active' /\ interval' = last'.tmo
        /\ seen' = <<>> /\ raised' = None]_vars

\* C24, amended: the same, but the active group becomes the group argument
\* of the call: a call that names a group makes that group the active one
RestartOnly ==
  [][(/\ last'.op = "begin_action" /\ last'.tmo # None
      /\ timer_active /\ group = None)
     => /\ UNCHANGED <<begin_state, action_things, actions, position>>
        /\ UNCHANGED <<attrs, items>>
        /\ group' = last'.g
        /\ timer_active' /\ interval' = last'.tmo
        /\ seen' = <<>> /\ raised' = None]_vars

\* C24: begin_action("b", "T2") was just called while the timer of
\* begin_action("a", "T") was armed: the tracked roots are those of the
\* first call and the timer runs with the second call's duration
RestartedSeen ==
  /\ last.op = "begin_action" /\ last.tmo = "T2" /\ last.ta
  /\ ep.phase = "open" /\ Len(ep.calls) = 2
  /\ ep.calls[1].things = One("a") /\ ep.calls[1].tmo = "T"
  /\ ep.calls[2].things = One("b")
  /\ action_things = <<(<<One("a"), One("Selection"), One("models")>>)>>
  /\ timer_active /\ interval = "T2"

\* C25: a begin_action called while a named group is active leaves the
\* group, the timer, the deltas and the position as they are and raises
\* nothing; every key of the before-snapshot keeps its value, every key it
\* adds holds the value at the time of the call and is a key of the call's
\* things, and the tracked roots are those of before with each thing of the
\* call that was not among them added once
JoinKeepsBefore ==
  [][(group # None /\ last'.op = "begin_action")
     => /\ UNCHANGED <<group, timer_active, interval, actions, position>>
        /\ UNCHANGED <<attrs, items>>
        /\ raised' = None
        /\ begin_state # <<>> /\ begin_state' # <<>>
        /\ action_things # <<>> /\ action_things' # <<>>
        /\ \A k \in DOMAIN begin_state[1] :
             /\ k \in DOMAIN begin_state'[1]
             /\ begin_state'[1][k] = begin_state[1][k]
        /\ \A k \in DOMAIN begin_state'[1] \ DOMAIN begin_state[1] :
             begin_state'[1][k] = Snap(k, At(attrs, items, k))
        /\ action_things' = action_things => begin_state' = begin_state
        /\ ep'.phase = "open"
           => LET things == ep'.calls[Len(ep'.calls)].things
              IN /\ action_things'[1] =
                      JoinRoots(action_things[1], things.elems)
                 /\ DOMAIN begin_state'[1] \ DOMAIN begin_state[1] \subseteq
                      DOMAIN save_state(<<things>>, attrs, items, EmptyState)
     ]_vars

\* C25: begin_action("a") has just joined a group begun on the units and
\* "b" after a field of the unit "a" was changed: "a" is a tracked root now
\* and the before-snapshot still holds the field's value of before the
\* change
JoinAfterChangeSeen ==
  /\ last.op = "begin_action" /\ group = "G1"
  /\ ep.phase = "open" /\ Len(ep.calls) = 2
  /\ ep.calls[1].things = Tup(<<"units", "b">>)
  /\ ep.calls[2].things = One("a")
  /\ Has(action_things[1], One("a"))
  /\ begin_state[1][<<"a", "duration">>] = Num(0)
  /\ attrs["a"].duration = Num(1)

\* C26: after every undo() and redo() each field holds a value of the kind
\* the program keeps in it (marks a mutable list, props a mapping, the
\* others numbers), and each container whose contents the restored map
\* holds has exactly those contents
RestoreExactKind ==
  [][(last'.op \in {"undo", "redo"} /\ position' # position)
     => /\ \A o \in Plain : \A f \in DOMAIN attrs[o] :
             attrs'[o][f].kind = InitAttrs[o][f].kind
        /\ LET state == IF last'.op = "undo" THEN actions[position][1]
                        ELSE actions[position + 1][2]
           IN \A c \in Containers :
                <<c, ListKey>> \in DOMAIN state
                => items'[c] = state[<<c, ListKey>>]]_vars

\* C27: after begin_action(a); changes to fields of a and of the objects a
\* has as model references; end_action(), with a the only root the caller
\* names, one delta was pushed that holds
\* the before- and after-value of every changed field; undo() then gives
\* every such field its value of before the changes and redo() its value
\* of after them
RefsTracked ==
  (ep.kind = "plain" /\ ~ep.stray /\ Changed # {})
  => /\ ep.phase = "ended"
          => (ep.calls[1].things = One("a") /\ OnePushed /\ TopCovers)
     /\ ep.phase = "undone"
          => \A loc \in DOMAIN ep.pre : At(attrs, items, loc) = ep.pre[loc]
     /\ ep.phase = "redone"
          => \A loc \in DOMAIN ep.pre : At(attrs, items, loc) = ep.post[loc]

\* C27: a field of "b", which only the model references of the root "a"
\* lead to, was changed inside begin_action(a) ... end_action(), and undo()
\* and redo() have run
ReferencedEditRedone ==
  /\ ep.phase = "redone" /\ ep.kind = "plain" /\ ~ep.stray
  /\ action_things = <<>>
  /\ refs["a"] = <<"b">>
  /\ ~Has(items["units"], "b") /\ ~Has(items["models"], "b")
  /\ <<"b", "time_offset">> \in Changed
  /\ attrs["b"].time_offset = ep.post[<<"b", "time_offset">>]

\* the before-snapshot in flight and the two maps of every delta
StoredStates ==
  (IF begin_state = <<>> THEN {} ELSE {begin_state[1]})
  \cup {actions[i][n] : i \in 1..Len(actions), n \in 1..2}

HistoryConsistent ==
  (/\ position = 0 /\ begin_state = <<>> /\ group = None /\ ~timer_active)
  => (attrs = InitAttrs /\ items = [c \in Containers |->
                                      IF c = "units" THEN <<"a">> ELSE <<>>])

\* C30: a begin_action without a timeout, with any group argument, called
\* while the timer is armed and no named group is active, stops the timer,
\* pushes the delta of the pending action (its before-snapshot against the
\* tracked roots as they are now) unless that delta is empty, and takes a
\* new before-snapshot, which holds the values of now
FlushBeforeCapture ==
  [][(/\ last'.op = "begin_action" /\ last'.tmo = None
      /\ timer_active /\ group = None /\ begin_state # <<>>)
     => LET delta == DeltaOf(begin_state[1],
                             save_opt(action_things, attrs, items))
        IN /\ ~timer_active'
           /\ begin_state' # <<>>
           /\ \A k \in DOMAIN begin_state'[1] :
                begin_state'[1][k] = Snap(k, At(attrs, items, k))
           /\ IF DOMAIN delta[1] = {} /\ DOMAIN delta[2] = {}
              THEN UNCHANGED <<actions, position>>
              ELSE /\ position' = position + 1
                   /\ actions' = Append(SubSeq(actions, 1, position), delta)
     ]_vars

\* C31: a begin_action called with no named group active and the timer not
\* armed while a before-snapshot is in flight pushes nothing and replaces
\* the tracked roots by its own things with the selection and the
\* before-snapshot by a snapshot of those roots as they are now; the one
\* end_action that follows leaves nothing in flight and pushes one delta
\* with the changes made since that begin_action, or none if there are none
FreshCapture ==
  /\ [][(/\ last'.op = "begin_action" /\ group = None /\ ~timer_active
         /\ begin_state # <<>>)
        => LET roots == <<ep'.calls[1].things, One("Selection"),
                          One("models")>>
           IN /\ UNCHANGED <<actions, position>>
              /\ action_things' = <<roots>>
              /\ begin_state' = <<save_state(roots, attrs, items, EmptyState)>>
       ]_vars
  /\ [](/\ ep.phase = "ended" /\ last.op = "end_action"
         /\ ep.kind \in {"plain", "group"} /\ Len(ep.calls) = 1
         /\ ~ep.armed /\ ~ep.stray
        => /\ begin_state = <<>> /\ action_things = <<>> /\ group = None
           /\ IF Changed = {}
              THEN actions = ep.actions0 /\ position = ep.position0
              ELSE OnePushed /\ TopCovers)

\* C31: begin_action on the units and "b" was just called, with no group and
\* no armed timer, while an earlier begin_action was not ended and after a
\* field of the unit "a" was changed: the before-snapshot holds the changed
\* value and nothing was pushed
RecapturedSeen ==
  /\ last.op = "begin_action" /\ last.fl /\ ~last.ta
  /\ ep.phase = "open" /\ Len(ep.calls) = 1
  /\ ep.calls[1].things = Tup(<<"units", "b">>)
  /\ nbegin = 2 /\ actions = <<>>
  /\ attrs["a"].duration = Num(1)
  /\ begin_state[1][<<"a", "duration">>] = Num(1)

\* C32: in every reachable state an active named group has a
\* before-snapshot and an armed timer has a before-snapshot, and no
\* operation has raised the TypeError of add_to_action on a missing
\* before-snapshot (holds where every capture returns; refuted by a
\* begin_action whose capture does not)
SnapshotExists ==
  /\ group # None => begin_state # <<>>
  /\ timer_active => begin_state # <<>>
  /\ raised # "TypeError"

\* C33: play mode and record mode are never on together, and after stop()
\* both are off
OneMode ==
  /\ ~(transport._playing /\ transport._recording)
  /\ transport.op = "stop" => ~transport._playing /\ ~transport._recording

\* C33: play() was called in record mode
PlayWhileRecording ==
  /\ transport.op = "play" /\ transport.was_recording
  /\ transport._playing /\ ~transport._recording

\* C34: the run timer is scheduled and the start time is set exactly when
\* the transport is playing or recording, the scheduled timer is the one
\* _run_timer names, and GLib has at most one source scheduled
RunTimerWhileRunning ==
  /\ (transport._run_timer # <<>> /\ transport._start_time # <<>>)
       <=> (transport._playing \/ transport._recording)
  /\ transport._run_timer # <<>> <=> transport._start_time # <<>>
  /\ transport.sources = {transport._run_timer[i] :
                            i \in 1..Len(transport._run_timer)}
  /\ Cardinality(transport.sources) <= 1

\* C34: record() was called in play mode, which stops and starts the timer
RecordWhilePlaying ==
  /\ transport.op = "record" /\ transport.was_playing
  /\ transport._recording /\ transport._run_timer # <<>>

\* C36: while the transport is stopped the marks are strictly ascending,
\* two toggle_mark() calls in a row leave the marks as they were, and the
\* stored time is not negative
MarksSorted ==
  transport._start_time = <<>>
  => /\ \A i \in 1..(Len(transport.marks) - 1) :
          transport.marks[i] < transport.marks[i + 1]
     /\ transport.twice => transport.marks = transport.marks0
     /\ transport._time >= 0

\* C36: in a transport that was never started, a mark before another was
\* removed and added again by two toggle_mark() calls
MarkToggledTwice ==
  /\ transport._start_time = <<>> /\ transport.now = 0
  /\ transport.twice /\ transport.marks1 = <<1>>
  /\ transport.marks = <<0, 1>>

\* the objects that have a field with the sentinel's name
WithListField == {o \in DOMAIN attrs : ListKey \in DOMAIN attrs[o]}

\* C35: in the before-snapshot and in every delta an entry keyed by the
\* sentinel is owned by a container and holds the contents the container
\* had, in order; undo() and redo() leave a field with the sentinel's name
\* as it is and give a container the contents of its sentinel-keyed entry,
\* or leave them as they are when the delta has none
SentinelApart ==
  /\ [](\A S \in StoredStates : \A k \in DOMAIN S :
          k[2] = ListKey => k[1] \in Containers)
  /\ [](\A S \in StoredStates : \A k \in DOMAIN S :
          k[2] = ListKey => \A i \in 1..Len(S[k]) : S[k][i] \in Objects)
  /\ [][(/\ last'.op = "begin_action" /\ begin_state' # <<>>
         /\ begin_state' # begin_state)
        => \A k \in DOMAIN begin_state'[1] :
             k[2] = ListKey => begin_state'[1][k] = items[k[1]]]_vars
  /\ [][last'.op \in {"undo", "redo"} /\ position' # position
        => LET state == IF last'.op = "undo" THEN actions[position][1]
                        ELSE actions[position + 1][2]
           IN /\ \A o \in WithListField :
                   attrs'[o][ListKey] = attrs[o][ListKey]
              /\ \A c \in Containers :
                   items'[c] = IF <<c, ListKey>> \in DOMAIN state
                               THEN state[<<c, ListKey>>] ELSE items[c]]_vars

\* C35: an action on the container changed its contents, its public field
\* and its field named like the sentinel, and was undone: the contents and
\* the public field are back, the field named like the sentinel is not
SentinelFieldKept ==
  /\ last.op = "undo" /\ position = 0 /\ Len(actions) = 1
  /\ <<"units", ListKey>> \in DOMAIN actions[1][1]
  /\ actions[1][2][<<"units", ListKey>>] = <<"a", "b">>
  /\ items["units"] = <<"a">>
  /\ attrs["units"][ListKey] = Num(1)

====
